---- MODULE Spec2Model ----
(***************************************************************************)
(* Audio playback engine of kords (class AudioEngine, helpers/AudioEngine  *)
(* in its soundfont version): voice tables, soundfont loading and the      *)
(* timer-driven chord sequencer, as a state machine; with the pure helpers  *)
(* of AudioHelper and the keyboard and transport handlers of KordApp that  *)
(* drive the engine.                                                       *)
(*                                                                         *)
(* Time is not a variable: a setTimeout or a scheduled osc.stop is a       *)
(* pending event that may fire at any later moment; the delay a sequence   *)
(* timer was armed with is kept in the timer.                              *)
(***************************************************************************)
EXTENDS Integers, Sequences, FiniteSets, Bags, TLC

\* ------------------------------------------------------------------ bounds
\* voices alive at once (sounding, releasing, or ended but still referenced)
MaxVoices == 3
\* handles kept in sequenceTimeouts, i.e. steps of one playSequence call
MaxTimeouts == 3
\* loadSoundfont calls in flight at once
MaxLoads == 2

\* ------------------------------------------------------------ input values
Notes == {"C4", "E4"}
Instruments == {"acoustic_grand_piano", "pad_2_warm"}
NoInstrument == "null"
BpmValues == {60, 120}
\* durationSec of playNote in milliseconds; 0 stands for the omitted argument
NoteDurations == {0, 500}

\* the note that is retriggered
RetriggerNote == "C4"

ChordA == [notes |-> <<"C4">>, durationBeats |-> 1]
ChordB == [notes |-> <<"C4", "E4">>, durationBeats |-> 2]
\* a chord without durationBeats (0 is as falsy as undefined at line 155)
ChordHeld == [notes |-> <<"E4">>, durationBeats |-> 0]
PreviewChords == {ChordA, ChordB, ChordHeld}
\* a chord with zero notes, and a chord object without notes field
ChordEmpty == [notes |-> << >>, durationBeats |-> 1]
ChordNoNotes == [durationBeats |-> 1]
\* chord lists with a silent step at the start, in the middle or at the end
SilentLists ==
    {<<ChordEmpty, ChordA>>, <<ChordA, ChordEmpty>>,
     <<ChordNoNotes, ChordA>>, <<ChordA, ChordNoNotes>>}
ChordLists == {<< >>, <<ChordA>>, <<ChordA, ChordB>>}
\* chord lists with a step of zero duration
ZeroLists == {<<ChordHeld>>, <<ChordA, ChordHeld>>}
StartIndices == {-1, 0, 1}
\* the oscillator types KordApp offers
SoundTypes == {"sine", "sawtooth"}
\* release times in milliseconds: the initial 0.25 s and a longer one
ReleaseTimes == {250, 1000}
\* master volumes in tenths: the initial 1.8 and a lower one
MasterVolumes == {5, 18}

\* ------------------------------------------------------------------- state
VARIABLES
    bpm,               \* this.bpm
    voices,            \* bag of the oscillator and soundfont nodes alive
    sequenceTimeouts,  \* this.sequenceTimeouts: the handles pushed so far
    seqTimers,         \* the window.setTimeout(schedule) timers not yet fired
    sfInstruments,     \* this.sfInstruments: names with a cached player
    sfInstrument,      \* this.sfInstrument
    currentInstrument, \* this.currentInstrument
    useSoundfont,      \* this.useSoundfont
    soundfontReady,    \* this.soundfontReady
    pendingLoads,      \* loadSoundfont calls suspended at their await
    lastOp,            \* what the last call or callback did, as its caller sees it
    helper,            \* the last AudioHelper call: its arguments and its result
    sound,             \* this.sound
    noteReleaseSec,    \* this.noteReleaseSec, in milliseconds
    masterGain,        \* this.masterGain.gain.value, in tenths
    appLoop,           \* the loop setting of the caller (KordApp's loop state)
    requested,         \* the instrument of the caller's most recent
                       \* changeInstrument, i.e. of the last loadSoundfont call
    appBaseOctave,     \* KordApp's baseOctave state
    keysDown,          \* the piano keys of the computer keyboard held down
    pressedNotes,      \* KordApp's pressedNotes.current
    soundReady,        \* KordApp's soundReadyRef.current
    isPlaying          \* KordApp's isPlaying state

vars == <<bpm, voices, sequenceTimeouts, seqTimers, sfInstruments, sfInstrument,
          currentInstrument, useSoundfont, soundfontReady, pendingLoads, lastOp,
          helper, sound, noteReleaseSec, masterGain, appLoop, requested,
          appBaseOctave, keysDown, pressedNotes, soundReady, isPlaying>>

\* the settings no note, sequence or soundfont operation writes
configVars == <<sound, noteReleaseSec, masterGain, appLoop>>

\* the state of the input and transport layer of KordApp, which no engine
\* method writes
uiVars == <<appBaseOctave, keysDown, pressedNotes, soundReady, isPlaying>>

\* ----------------------------------------------------------------- voices
\* One node: an oscillator+gain pair (backend "osc") or a soundfont node with
\* its stopFn (backend "sf").
\*   status      "sounding" | "releasing" (a stop has been requested and the
\*               fade or the release delay is running) | "stopped"
\*   inTable     it is the activeVoices entry of its note (osc) or its stopFn
\*               is in the sfActiveNotes set of its note (sf)
\*   stopPending an osc.stop(t) lies in the future (osc) or a
\*               setTimeout(stopFn) has not fired yet (sf)
\*   type        osc.type, set from this.sound when the oscillator is created
\*               (osc); "sampled" for a soundfont node
Voice(note, backend, status, inTable, stopPending) ==
    [note |-> note, backend |-> backend, status |-> status,
     inTable |-> inTable, stopPending |-> stopPending,
     type |-> IF backend = "osc" THEN sound ELSE "sampled"]

RECURSIVE SumOver(_, _)
SumOver(S, B) ==
    IF S = {} THEN 0
    ELSE LET x == CHOOSE y \in S : TRUE IN B[x] + SumOver(S \ {x}, B)

\* the bag B with every voice v replaced by F(v)
MapVoices(F(_), B) ==
    LET S == BagToSet(B)
    IN  [w \in {F(v) : v \in S} |-> SumOver({v \in S : F(v) = w}, B)]

\* a node that has ended and that nothing refers to any more is collected
Collectable(v) == v.status = "stopped" /\ ~v.inTable /\ ~v.stopPending

Collect(B) ==
    LET S == {v \in BagToSet(B) : ~Collectable(v)} IN [v \in S |-> B[v]]

One(v) == SetToBag({v})

\* this.activeVoices: note -> the oscillator voices entered under it
activeVoicesOf(B, note) ==
    {v \in BagToSet(B) : v.backend = "osc" /\ v.inTable /\ v.note = note}

\* this.sfActiveNotes: note -> the soundfont voices whose stopFn is in its set
sfActiveNotesOf(B, note) ==
    {v \in BagToSet(B) : v.backend = "sf" /\ v.inTable /\ v.note = note}

\* activeVoices.set(note, ...): the entry of the note, if any, is replaced
SetActiveVoice(B, note, v) ==
    LET drop(w) == IF w.backend = "osc" /\ w.inTable /\ w.note = note
                   THEN [w EXCEPT !.inTable = FALSE] ELSE w
    IN  Collect(MapVoices(drop, B)) (+) One(v)

\* (60 / bpm) * beats, in milliseconds
beatsToMs(b, beats) == (60000 * beats) \div b

\* the backend playNote and playChord dispatch to (lines 118-125, 157-165)
Backend(use, ready, inst) ==
    IF use /\ ~ready THEN "drop"
    ELSE IF use /\ inst # NoInstrument THEN "sf"
    ELSE "osc"

\* playSfNote plus the caller's setTimeout(stopFn, durationSec * 1000)
playSfNote(B, note, timed) ==
    B (+) One(Voice(note, "sf", "sounding", TRUE, timed))

\* the oscillator path of playNote: a timed voice is never entered in
\* activeVoices, a held one replaces the entry of its note
playOscNote(B, note, durationMs) ==
    IF durationMs > 0
    THEN B (+) One(Voice(note, "osc", "sounding", FALSE, TRUE))
    ELSE SetActiveVoice(B, note, Voice(note, "osc", "sounding", TRUE, FALSE))

playNoteVoices(B, backend, note, durationMs) ==
    IF backend = "drop" THEN B
    ELSE IF backend = "sf" THEN playSfNote(B, note, durationMs # 0)
    ELSE playOscNote(B, note, durationMs)

\* the oscillator path of playChord for one note: entered in activeVoices
\* whether or not a stop was scheduled
playChordOscNote(B, note, timed) ==
    SetActiveVoice(B, note, Voice(note, "osc", "sounding", TRUE, timed))

RECURSIVE playChordNotes(_, _, _, _)
playChordNotes(B, backend, notes, timed) ==
    IF notes = << >> THEN B
    ELSE playChordNotes(
             IF backend = "sf" THEN playSfNote(B, Head(notes), timed)
             ELSE playChordOscNote(B, Head(notes), timed),
             backend, Tail(notes), timed)

\* chord.notes.forEach on a chord object without notes field: a TypeError,
\* unless playChord has returned before (line 157)
ChordThrows(backend, chord) == backend # "drop" /\ "notes" \notin DOMAIN chord

playChordVoices(B, backend, chord) ==
    IF backend = "drop" \/ ChordThrows(backend, chord) THEN B
    ELSE playChordNotes(B, backend, chord.notes, chord.durationBeats # 0)

\* voices a playChord call starts
ChordTriggers(backend, chord) ==
    IF backend = "drop" \/ ChordThrows(backend, chord) THEN 0 ELSE Len(chord.notes)

\* stopNote: the soundfont set of the note if it is not empty (each stopFn is
\* delayed by the release time and the set is deleted), else the oscillator
\* entry (fade, osc.stop scheduled, entry deleted)
stopNoteVoices(B, note) ==
    LET sfStop(v) == IF v.backend = "sf" /\ v.inTable /\ v.note = note
                     THEN [v EXCEPT !.status = "releasing", !.inTable = FALSE,
                                    !.stopPending = TRUE]
                     ELSE v
        oscStop(v) == IF v.backend = "osc" /\ v.inTable /\ v.note = note
                      THEN [v EXCEPT !.status = IF v.status = "stopped"
                                                THEN "stopped" ELSE "releasing",
                                     !.inTable = FALSE,
                                     !.stopPending = v.status # "stopped"]
                      ELSE v
    IN  IF sfActiveNotesOf(B, note) # {} THEN MapVoices(sfStop, B)
        ELSE Collect(MapVoices(oscStop, B))

\* stopAllNotes as it was before the soundfont tables existed: the stop
\* functions of sfActiveNotes are neither called nor cleared
stopAllNotes_OscOnly(B) ==
    LET stop(v) ==
            IF v.inTable /\ v.backend = "osc"
            THEN [v EXCEPT !.status = IF v.status = "stopped"
                                      THEN "stopped" ELSE "releasing",
                           !.inTable = FALSE,
                           !.stopPending = v.status # "stopped"]
            ELSE v
    IN  Collect(MapVoices(stop, B))

\* stopAllNotes: every activeVoices entry fades and is dropped from the table,
\* every stopFn of sfActiveNotes is called at once, both tables are cleared
stopAllNotesVoices(B) ==
    LET stop(v) ==
            IF ~v.inTable THEN v
            ELSE IF v.backend = "osc"
            THEN [v EXCEPT !.status = IF v.status = "stopped"
                                      THEN "stopped" ELSE "releasing",
                           !.inTable = FALSE,
                           !.stopPending = v.status # "stopped"]
            ELSE [v EXCEPT !.status = "stopped", !.inTable = FALSE]
    IN  Collect(MapVoices(stop, B))

\* --------------------------------------------------------------- sequencer
\* One pending window.setTimeout(() => schedule(index), delay) of a
\* playSequence call: the closure's chords and loop, the index it will run
\* and the delay it was armed with.  cancelled records that stopSequence has
\* run since it was armed (it is set on a timer stopSequence fails to clear).
SeqTimer(id, chords, loop, index, delay) ==
    [id |-> id, chords |-> chords, loop |-> loop, index |-> index,
     delay |-> delay, cancelled |-> FALSE]

Range(s) == {s[i] : i \in DOMAIN s}

\* the handle window.setTimeout returns: one no live or remembered timer has
NewTimerId(timers, tmo) ==
    CHOOSE i \in 1..(Cardinality(timers) + Len(tmo) + 1) :
        /\ i \notin Range(tmo)
        /\ i \notin {t.id : t \in timers}
        /\ \A j \in 1..(i - 1) : j \in Range(tmo) \/ j \in {t.id : t \in timers}

\* clearTimeout(this.sequenceTimeouts[0]) in place of the forEach
clearTimeouts_OnlyFirst(timers, tmo) ==
    {[t EXCEPT !.cancelled = TRUE] :
        t \in {u \in timers : tmo = << >> \/ u.id # tmo[1]}}

\* sequenceTimeouts.forEach(clearTimeout): the timers left pending afterwards
clearTimeouts(timers, tmo) ==
    {[t EXCEPT !.cancelled = TRUE] : t \in {u \in timers : u.id \notin Range(tmo)}}

\* what a call or callback did, as seen from outside:
\*   triggered     voices it started
\*   stepped       it invoked onStep, with index; stale: from a cancelled timer
\*   playedAtStep  voices of the step's chord started before onStep was invoked
\*   timersAtStep  sequence timers pending when onStep was invoked
\*   threw         it ended by an exception
\*   cleared       pending sequence timers it cancelled with clearTimeout
\*   stoppedOsc    activeVoices entries it stopped and deleted
\*   stoppedSf     sfActiveNotes stop functions it ran or scheduled, and deleted
\*   release       the release time stopNote faded or delayed with
\*   reentered     the engine method the onStep callback of the step called
Did(op, triggered) ==
    [op |-> op, triggered |-> triggered, stepped |-> FALSE, index |-> 0,
     stale |-> FALSE, playedAtStep |-> 0, timersAtStep |-> 0, threw |-> FALSE,
     cleared |-> 0, stoppedOsc |-> 0, stoppedSf |-> 0, release |-> 0,
     reentered |-> "none"]

\* entries of activeVoices (backend "osc") or stop functions of sfActiveNotes
TableSize(B, backend) ==
    SumOver({v \in BagToSet(B) : v.inTable /\ v.backend = backend}, B)

\* the record of a call that ran stopSequence on timers and voices B
Stopped(did, timers, tmo, B) ==
    [did EXCEPT !.cleared = Cardinality({t \in timers : t.id \in Range(tmo)}),
                !.stoppedOsc = TableSize(B, "osc"),
                !.stoppedSf = TableSize(B, "sf")]

\* a step that invokes onStep before it plays the chord
scheduleStep_OnStepFirst(B, timers, tmo, chords, loop, i, stale, op) ==
    LET chord   == chords[i + 1]
        backend == Backend(useSoundfont, soundfontReady, sfInstrument)
        id      == NewTimerId(timers, tmo)
        delay   == beatsToMs(bpm, chord.durationBeats)
    IN  [voices |-> playChordVoices(B, backend, chord),
         timers |-> timers \cup {SeqTimer(id, chords, loop, i + 1, delay)},
         tmo    |-> Append(tmo, id),
         did    |-> [Did(op, ChordTriggers(backend, chord)) EXCEPT
                         !.stepped = TRUE, !.index = i, !.stale = stale,
                         !.playedAtStep = 0,
                         !.timersAtStep = Cardinality(timers)]]

\* one step of schedule: playChord, onStep, arm the timer of index + 1; an
\* exception of playChord leaves schedule before onStep and before the timer
scheduleStep(B, timers, tmo, chords, loop, i, stale, op) ==
    LET chord   == chords[i + 1]
        backend == Backend(useSoundfont, soundfontReady, sfInstrument)
        id      == NewTimerId(timers, tmo)
        delay   == beatsToMs(bpm, chord.durationBeats)
    IN  IF ChordThrows(backend, chord)
        THEN [voices |-> B, timers |-> timers, tmo |-> tmo,
              did |-> [Did(op, 0) EXCEPT !.threw = TRUE, !.stale = stale]]
        ELSE
        [voices |-> playChordVoices(B, backend, chord),
         timers |-> timers \cup {SeqTimer(id, chords, loop, i + 1, delay)},
         tmo    |-> Append(tmo, id),
         did    |-> [Did(op, ChordTriggers(backend, chord)) EXCEPT
                         !.stepped = TRUE, !.index = i, !.stale = stale,
                         !.playedAtStep = ChordTriggers(backend, chord),
                         !.timersAtStep = Cardinality(timers)]]

\* schedule that wraps to 0 at the end of the list whatever loop says
schedule_AlwaysWraps(B, timers, tmo, chords, loop, index, stale, op) ==
    LET defined(i) == i >= 0 /\ i < Len(chords)
    IN  IF defined(index)
        THEN scheduleStep(B, timers, tmo, chords, loop, index, stale, op)
        ELSE IF defined(0)
        THEN scheduleStep(B, timers, tmo, chords, loop, 0, stale, op)
        ELSE [voices |-> B, timers |-> timers, tmo |-> tmo,
              did |-> [Did(op, 0) EXCEPT !.threw = TRUE, !.stale = stale]]

\* schedule that, on an undefined chord with loop set, arms a zero-delay timer
\* for index 0 in place of the direct call schedule(0)
schedule_WrapByTimer(B, timers, tmo, chords, loop, index, stale, op) ==
    LET defined(i) == i >= 0 /\ i < Len(chords)
        id == NewTimerId(timers, tmo)
    IN  IF defined(index)
        THEN scheduleStep(B, timers, tmo, chords, loop, index, stale, op)
        ELSE [voices |-> B,
              timers |-> IF loop THEN timers \cup {SeqTimer(id, chords, loop, 0, 0)}
                         ELSE timers,
              tmo |-> IF loop THEN Append(tmo, id) ELSE tmo,
              did |-> [Did(op, 0) EXCEPT !.stale = stale]]

\* schedule(index) of playSequence: chords[index] undefined ends the chain, or
\* with loop restarts it at 0; with loop and no chord at 0 either the
\* recursion never ends and the call fails with a stack overflow
schedule(B, timers, tmo, chords, loop, index, stale, op) ==
    LET defined(i) == i >= 0 /\ i < Len(chords)
    IN  IF defined(index)
        THEN scheduleStep(B, timers, tmo, chords, loop, index, stale, op)
        ELSE IF loop /\ defined(0)
        THEN scheduleStep(B, timers, tmo, chords, loop, 0, stale, op)
        ELSE [voices |-> B, timers |-> timers, tmo |-> tmo,
              did |-> [Did(op, 0) EXCEPT !.threw = loop, !.stale = stale]]

\* what an onStep callback may call on the engine while its step executes
Callbacks == {"stopSequence", "panic", "playSequence"}

\* the chord list a callback starts with playSequence
CallbackChords == <<ChordHeld>>

\* one step of schedule whose onStep callback calls cb on the engine: playChord
\* (line 230), then inside onStep (line 231) stopSequence, panic or
\* playSequence(CallbackChords), and after onStep has returned lines 233-235
\* all the same: the timer of index + 1 is armed and its handle pushed on the
\* sequenceTimeouts array the callback left.  The timer is armed for a chain
\* stopSequence has cancelled, which its cancelled field records.
scheduleStepCalling(B, timers, tmo, chords, loop, i, stale, op, cb) ==
    LET chord   == chords[i + 1]
        backend == Backend(useSoundfont, soundfontReady, sfInstrument)
        played  == playChordVoices(B, backend, chord)
        stopped == IF cb = "panic"
                   THEN stopAllNotesVoices(stopAllNotesVoices(played))
                   ELSE stopAllNotesVoices(played)
        cleared == clearTimeouts(timers, tmo)
        inner   == IF cb = "playSequence"
                   THEN scheduleStep(stopped, cleared, << >>, CallbackChords,
                                     FALSE, 0, FALSE, op)
                   ELSE [voices |-> stopped, timers |-> cleared, tmo |-> << >>]
        id      == NewTimerId(inner.timers, inner.tmo)
        delay   == beatsToMs(bpm, chord.durationBeats)
    IN  [voices |-> inner.voices,
         timers |-> inner.timers \cup
                        {[SeqTimer(id, chords, loop, i + 1, delay)
                              EXCEPT !.cancelled = TRUE]},
         tmo    |-> Append(inner.tmo, id),
         did    |-> [Did(op, ChordTriggers(backend, chord)) EXCEPT
                         !.stepped = TRUE, !.index = i, !.stale = stale,
                         !.playedAtStep = ChordTriggers(backend, chord),
                         !.timersAtStep = Cardinality(timers),
                         !.reentered = cb]]

\* ------------------------------------------------------------------ actions
Init ==
    /\ bpm = 120
    /\ voices = EmptyBag
    /\ sequenceTimeouts = << >>
    /\ seqTimers = {}
    /\ sfInstruments = {}
    /\ sfInstrument = NoInstrument
    /\ currentInstrument = "acoustic_grand_piano"
    /\ useSoundfont = FALSE
    /\ soundfontReady = FALSE
    /\ pendingLoads = << >>
    /\ requested = "acoustic_grand_piano"
    /\ appBaseOctave = 4
    /\ keysDown = {}
    /\ pressedNotes = {}
    /\ soundReady = FALSE
    /\ isPlaying = FALSE
    /\ lastOp = Did("new", 0)
    /\ helper = [fn |-> "none"]
    /\ sound = "sine"
    /\ noteReleaseSec = 250
    /\ masterGain = 18
    /\ appLoop = FALSE

Fits(B) == BagCardinality(B) <= MaxVoices

soundfontVars == <<sfInstruments, sfInstrument, currentInstrument, useSoundfont,
                   soundfontReady, pendingLoads, requested>>
sequenceVars == <<sequenceTimeouts, seqTimers>>

\* setBpm that re-arms the pending sequence timers at the new tempo
setBpm_Rearm(b) ==
    /\ bpm' = b
    /\ seqTimers' = {[t EXCEPT !.delay = (t.delay * bpm) \div b] : t \in seqTimers}
    /\ lastOp' = Did("setBpm", 0)
    /\ UNCHANGED <<configVars, helper, uiVars, voices, sequenceTimeouts, soundfontVars>>

setBpm(b) ==
    /\ bpm' = b
    /\ lastOp' = Did("setBpm", 0)
    /\ UNCHANGED <<configVars, helper, uiVars, voices, sequenceVars, soundfontVars>>

setSound(s) ==
    /\ sound' = s
    /\ lastOp' = Did("setSound", 0)
    /\ UNCHANGED <<noteReleaseSec, masterGain, appLoop, helper, uiVars, bpm, voices,
                   sequenceVars, soundfontVars>>

setMasterVolume(value) ==
    /\ masterGain' = value
    /\ lastOp' = Did("setMasterVolume", 0)
    /\ UNCHANGED <<sound, noteReleaseSec, appLoop, helper, uiVars, bpm, voices,
                   sequenceVars, soundfontVars>>

setReleaseTime(sec) ==
    /\ noteReleaseSec' = sec
    /\ lastOp' = Did("setReleaseTime", 0)
    /\ UNCHANGED <<sound, masterGain, appLoop, helper, uiVars, bpm, voices,
                   sequenceVars, soundfontVars>>

\* the caller's loop setting changes (setLoop of the loop checkbox)
setLoop(l) ==
    /\ appLoop' = l
    /\ lastOp' = Did("setLoop", 0)
    /\ UNCHANGED <<sound, noteReleaseSec, masterGain, helper, uiVars, bpm, voices,
                   sequenceVars, soundfontVars>>

playNote(note, durationMs) ==
    LET backend == Backend(useSoundfont, soundfontReady, sfInstrument)
    IN  \E B \in {playNoteVoices(voices, backend, note, durationMs)} :
            /\ Fits(B)
            /\ voices' = B
            /\ lastOp' = Did("playNote", IF backend = "drop" THEN 0 ELSE 1)
            /\ UNCHANGED <<configVars, helper, uiVars, bpm, sequenceVars, soundfontVars>>

playChord(chord) ==
    LET backend == Backend(useSoundfont, soundfontReady, sfInstrument)
    IN  \E B \in {playChordVoices(voices, backend, chord)} :
            /\ Fits(B)
            /\ voices' = B
            /\ lastOp' = [Did("playChord", ChordTriggers(backend, chord)) EXCEPT
                              !.threw = ChordThrows(backend, chord)]
            /\ UNCHANGED <<configVars, helper, uiVars, bpm, sequenceVars, soundfontVars>>

stopNote(note) ==
    /\ voices' = stopNoteVoices(voices, note)
    /\ lastOp' = [Did("stopNote", 0) EXCEPT
                      !.stoppedSf = SumOver(sfActiveNotesOf(voices, note), voices),
                      !.stoppedOsc = IF sfActiveNotesOf(voices, note) # {} THEN 0
                                     ELSE SumOver(activeVoicesOf(voices, note), voices),
                      !.release = noteReleaseSec]
    /\ UNCHANGED <<configVars, helper, uiVars, bpm, sequenceVars, soundfontVars>>

stopSequence ==
    /\ seqTimers' = clearTimeouts(seqTimers, sequenceTimeouts)
    /\ sequenceTimeouts' = << >>
    /\ voices' = stopAllNotesVoices(voices)
    /\ lastOp' = Stopped(Did("stopSequence", 0), seqTimers, sequenceTimeouts, voices)
    /\ UNCHANGED <<configVars, helper, uiVars, bpm, soundfontVars>>

\* stopSequence(), then stopAllNotes() once more
panic ==
    /\ seqTimers' = clearTimeouts(seqTimers, sequenceTimeouts)
    /\ sequenceTimeouts' = << >>
    /\ voices' = stopAllNotesVoices(stopAllNotesVoices(voices))
    /\ lastOp' = Stopped(Did("panic", 0), seqTimers, sequenceTimeouts, voices)
    /\ UNCHANGED <<configVars, helper, uiVars, bpm, soundfontVars>>

\* playSequence without its leading this.stopSequence()
playSequence_NoStop(chords, startIndex, loop) ==
    \E r \in {schedule(voices, seqTimers, sequenceTimeouts,
                       chords, loop, startIndex, FALSE, "playSequence")} :
        /\ Fits(r.voices)
        /\ Len(r.tmo) <= MaxTimeouts
        /\ voices' = r.voices
        /\ seqTimers' = r.timers
        /\ sequenceTimeouts' = r.tmo
        /\ lastOp' = r.did
        /\ UNCHANGED <<configVars, helper, uiVars, bpm, soundfontVars>>

playSequence(chords, startIndex, loop) ==
    \E r \in {schedule(stopAllNotesVoices(voices),
                       clearTimeouts(seqTimers, sequenceTimeouts), << >>,
                       chords, loop, startIndex, FALSE, "playSequence")} :
        /\ Fits(r.voices)
        /\ voices' = r.voices
        /\ seqTimers' = r.timers
        /\ sequenceTimeouts' = r.tmo
        /\ lastOp' = Stopped(r.did, seqTimers, sequenceTimeouts, voices)
        /\ UNCHANGED <<configVars, helper, uiVars, bpm, soundfontVars>>

\* handlePlaySequence of KordApp: nothing for an empty list; else
\* playSequence with the loop setting of the moment as its loop argument (its
\* onStep callback only sets display state), then setIsPlaying(true)
handlePlaySequence(chords, startIndex) ==
    /\ chords # << >>
    /\ \E r \in {schedule(stopAllNotesVoices(voices),
                           clearTimeouts(seqTimers, sequenceTimeouts), << >>,
                           chords, appLoop, startIndex, FALSE, "playSequence")} :
           /\ Fits(r.voices)
           /\ voices' = r.voices
           /\ seqTimers' = r.timers
           /\ sequenceTimeouts' = r.tmo
           /\ lastOp' = Stopped(r.did, seqTimers, sequenceTimeouts, voices)
    /\ isPlaying' = TRUE
    /\ UNCHANGED <<configVars, helper, bpm, soundfontVars, appBaseOctave,
                   keysDown, pressedNotes, soundReady>>

\* stopSequence of KordApp: the engine's stopSequence, then setIsPlaying(false)
stopSequenceApp ==
    /\ seqTimers' = clearTimeouts(seqTimers, sequenceTimeouts)
    /\ sequenceTimeouts' = << >>
    /\ voices' = stopAllNotesVoices(voices)
    /\ lastOp' = Stopped(Did("stopSequence", 0), seqTimers, sequenceTimeouts, voices)
    /\ isPlaying' = FALSE
    /\ UNCHANGED <<configVars, helper, bpm, soundfontVars, appBaseOctave,
                   keysDown, pressedNotes, soundReady>>

\* a Space key press: stop when isPlaying, else play the saved chords from 0
spaceKey(savedChords) ==
    IF isPlaying THEN stopSequenceApp ELSE handlePlaySequence(savedChords, 0)

\* a sequence timer fires: schedule(index) runs in its closure
seqTimerFires(t) ==
    /\ t \in seqTimers
    /\ \E r \in {schedule(voices, seqTimers \ {t}, sequenceTimeouts,
                          t.chords, t.loop, t.index, t.cancelled, "timer")} :
           /\ Fits(r.voices)
           /\ Len(r.tmo) <= MaxTimeouts
           /\ voices' = r.voices
           /\ seqTimers' = r.timers
           /\ sequenceTimeouts' = r.tmo
           /\ lastOp' = r.did
           /\ UNCHANGED <<configVars, helper, uiVars, bpm, soundfontVars>>

\* playSequence of a list with a chord at startIndex, with an onStep callback
\* that calls cb on the engine during the first step
playSequenceCalling(chords, startIndex, loop, cb) ==
    /\ startIndex >= 0 /\ startIndex < Len(chords)
    /\ ~ChordThrows(Backend(useSoundfont, soundfontReady, sfInstrument),
                    chords[startIndex + 1])
    /\ \E r \in {scheduleStepCalling(stopAllNotesVoices(voices),
                       clearTimeouts(seqTimers, sequenceTimeouts), << >>,
                       chords, loop, startIndex, FALSE, "playSequence", cb)} :
           /\ Fits(r.voices)
           /\ voices' = r.voices
           /\ seqTimers' = r.timers
           /\ sequenceTimeouts' = r.tmo
           /\ lastOp' = Stopped(r.did, seqTimers, sequenceTimeouts, voices)
           /\ UNCHANGED <<configVars, helper, uiVars, bpm, soundfontVars>>

\* a sequence timer fires on a chord of its list, and the onStep callback of
\* its closure calls cb on the engine during the step
seqTimerFiresCalling(t, cb) ==
    /\ t \in seqTimers
    /\ t.index < Len(t.chords)
    /\ ~ChordThrows(Backend(useSoundfont, soundfontReady, sfInstrument),
                    t.chords[t.index + 1])
    /\ \E r \in {scheduleStepCalling(voices, seqTimers \ {t}, sequenceTimeouts,
                       t.chords, t.loop, t.index, t.cancelled, "timer", cb)} :
           /\ Fits(r.voices)
           /\ Len(r.tmo) <= MaxTimeouts
           /\ voices' = r.voices
           /\ seqTimers' = r.timers
           /\ sequenceTimeouts' = r.tmo
           /\ lastOp' = r.did
           /\ UNCHANGED <<configVars, helper, uiVars, bpm, soundfontVars>>

\* a release timer that stops by note name: every oscillator of the note ends
oscStopFires_ByNote(v) ==
    /\ BagIn(v, voices) /\ v.backend = "osc" /\ v.stopPending
    /\ voices' = Collect(MapVoices(
                    LAMBDA w : IF w.backend = "osc" /\ w.note = v.note
                               THEN [w EXCEPT !.status = "stopped",
                                              !.stopPending = FALSE]
                               ELSE w, voices))
    /\ lastOp' = Did("oscStop", 0)
    /\ UNCHANGED <<configVars, helper, uiVars, bpm, sequenceVars, soundfontVars>>

\* the audio clock reaches the time of a scheduled osc.stop
oscStopFires(v) ==
    /\ BagIn(v, voices) /\ v.backend = "osc" /\ v.stopPending
    /\ voices' = Collect((voices (-) One(v))
                    (+) One([v EXCEPT !.status = "stopped", !.stopPending = FALSE]))
    /\ lastOp' = Did("oscStop", 0)
    /\ UNCHANGED <<configVars, helper, uiVars, bpm, sequenceVars, soundfontVars>>

\* a setTimeout(stopFn) fires: node.stop(), and stopFn leaves the set of its note
sfStopFires(v) ==
    /\ BagIn(v, voices) /\ v.backend = "sf" /\ v.stopPending
    /\ voices' = Collect((voices (-) One(v))
                    (+) One([v EXCEPT !.status = "stopped", !.inTable = FALSE,
                                      !.stopPending = FALSE]))
    /\ lastOp' = Did("sfStop", 0)
    /\ UNCHANGED <<configVars, helper, uiVars, bpm, sequenceVars, soundfontVars>>

\* ----------------------------------------------------------------- soundfont
\* the four fields that select the backend
BackendState ==
    [useSoundfont |-> useSoundfont, soundfontReady |-> soundfontReady,
     sfInstrument |-> sfInstrument, currentInstrument |-> currentInstrument]

\* a loadSoundfont call suspended at its await: pre is BackendState when it was
\* called, solo that no other loadSoundfont call ran during it
Load(name, pre, solo) == [name |-> name, pre |-> pre, solo |-> solo]

Overlapped(loads) == [i \in DOMAIN loads |-> [loads[i] EXCEPT !.solo = FALSE]]

RemoveAt(s, i) == [j \in 1..(Len(s) - 1) |-> IF j < i THEN s[j] ELSE s[j + 1]]

\* loadSoundfont up to its return or its await
loadSoundfont(name) ==
    /\ requested' = name
    /\ IF name \in sfInstruments
       THEN /\ sfInstrument' = name
            /\ currentInstrument' = name
            /\ useSoundfont' = TRUE
            /\ soundfontReady' = TRUE
            /\ pendingLoads' = Overlapped(pendingLoads)
            /\ lastOp' = Did("loadCached", 0)
       ELSE /\ Len(pendingLoads) < MaxLoads
            /\ soundfontReady' = FALSE
            /\ pendingLoads' = Append(Overlapped(pendingLoads),
                                      Load(name, BackendState, pendingLoads = << >>))
            /\ lastOp' = Did("loadSoundfont", 0)
            /\ UNCHANGED <<sfInstrument, currentInstrument, useSoundfont>>
    /\ UNCHANGED <<configVars, helper, uiVars, bpm, voices, sequenceVars, sfInstruments>>

\* Soundfont.instrument resolves: the rest of loadSoundfont runs
loadResolves(i) ==
    /\ i \in DOMAIN pendingLoads
    /\ sfInstruments' = sfInstruments \cup {pendingLoads[i].name}
    /\ sfInstrument' = pendingLoads[i].name
    /\ currentInstrument' = pendingLoads[i].name
    /\ useSoundfont' = TRUE
    /\ soundfontReady' = TRUE
    /\ pendingLoads' = RemoveAt(pendingLoads, i)
    /\ lastOp' = Did("loadResolved", 0)
    /\ UNCHANGED <<configVars, helper, uiVars, bpm, voices, sequenceVars, requested>>

\* Soundfont.instrument rejects: loadSoundfont rejects at its await
loadRejects(i) ==
    /\ i \in DOMAIN pendingLoads
    /\ pendingLoads' = RemoveAt(pendingLoads, i)
    /\ lastOp' = [Did("loadRejected", 0) EXCEPT !.threw = TRUE]
    /\ UNCHANGED <<configVars, helper, uiVars, bpm, voices, sequenceVars,
                   sfInstruments, sfInstrument,
                   currentInstrument, useSoundfont, soundfontReady, requested>>

\* ------------------------------------------------------------ input layer
\* the keys of the computer keyboard that play a note, and the two that change
\* the octave
PianoKeys == {"a", "d"}
OctaveKeys == {"z", "x"}

\* the range of baseOctave
MinOctave == 1
MaxOctave == 4

\* BASE_KEYBOARD[key] + octave
getNoteFromKey(key, octave) ==
    LET names == IF key = "a" THEN <<"C1", "C2", "C3", "C4">>
                 ELSE <<"E1", "E2", "E3", "E4">>
    IN  names[octave]

\* unlockAudio up to its await: loadSoundfont of the piano, once
unlockAudio ==
    /\ ~soundReady
    /\ pendingLoads = << >>
    /\ "acoustic_grand_piano" \notin sfInstruments
    /\ loadSoundfont("acoustic_grand_piano")

\* the load of unlockAudio resolves: the rest of loadSoundfont runs, then
\* setSoundReady(true)
unlockResolves(i) ==
    /\ i \in DOMAIN pendingLoads
    /\ sfInstruments' = sfInstruments \cup {pendingLoads[i].name}
    /\ sfInstrument' = pendingLoads[i].name
    /\ currentInstrument' = pendingLoads[i].name
    /\ useSoundfont' = TRUE
    /\ soundfontReady' = TRUE
    /\ pendingLoads' = RemoveAt(pendingLoads, i)
    /\ soundReady' = TRUE
    /\ lastOp' = Did("loadResolved", 0)
    /\ UNCHANGED <<configVars, helper, bpm, voices, sequenceVars, requested,
                   appBaseOctave, keysDown, pressedNotes, isPlaying>>

\* handleNoteOn(note): nothing before the sound is ready or for a note already
\* pressed; else the note is added to pressedNotes and played without duration
handleNoteOn(note) ==
    IF ~soundReady \/ note \in pressedNotes
    THEN /\ lastOp' = Did("handleNoteOn", 0)
         /\ UNCHANGED <<pressedNotes, voices>>
    ELSE LET backend == Backend(useSoundfont, soundfontReady, sfInstrument)
         IN  /\ pressedNotes' = pressedNotes \cup {note}
             /\ voices' = playNoteVoices(voices, backend, note, 0)
             /\ Fits(voices')
             /\ lastOp' = Did("handleNoteOn", IF backend = "drop" THEN 0 ELSE 1)

\* handleNoteOff(note): nothing before the sound is ready or for a note that
\* is not pressed; else the note leaves pressedNotes and is passed to stopNote
handleNoteOff(note) ==
    IF ~soundReady \/ note \notin pressedNotes
    THEN /\ lastOp' = Did("handleNoteOff", 0)
         /\ UNCHANGED <<pressedNotes, voices>>
    ELSE /\ pressedNotes' = pressedNotes \ {note}
         /\ voices' = stopNoteVoices(voices, note)
         /\ lastOp' = [Did("handleNoteOff", 0) EXCEPT !.release = noteReleaseSec]

\* a keydown event of a piano key, the first one or an auto-repeat: the note
\* of the key at the octave of the moment goes to onNoteOn
keyDown(key) ==
    /\ keysDown' = keysDown \cup {key}
    /\ handleNoteOn(getNoteFromKey(key, appBaseOctave))
    /\ UNCHANGED <<configVars, helper, bpm, sequenceVars, soundfontVars,
                   appBaseOctave, soundReady, isPlaying>>

\* the keyup event of a piano key held down: the note of the key at the
\* octave of the moment goes to onNoteOff
keyUp(key) ==
    /\ key \in keysDown
    /\ keysDown' = keysDown \ {key}
    /\ handleNoteOff(getNoteFromKey(key, appBaseOctave))
    /\ UNCHANGED <<configVars, helper, bpm, sequenceVars, soundfontVars,
                   appBaseOctave, soundReady, isPlaying>>

\* a keydown event of z or x: the octave goes one down or one up in its range
octaveKey(key) ==
    /\ appBaseOctave' =
           IF key = "z"
           THEN (IF appBaseOctave - 1 < MinOctave THEN MinOctave
                 ELSE appBaseOctave - 1)
           ELSE (IF appBaseOctave + 1 > MaxOctave THEN MaxOctave
                 ELSE appBaseOctave + 1)
    /\ lastOp' = Did("setBaseOctave", 0)
    /\ UNCHANGED <<configVars, helper, bpm, voices, sequenceVars, soundfontVars,
                   keysDown, pressedNotes, soundReady, isPlaying>>

Next ==
    \/ unlockAudio
    \/ \E i \in DOMAIN pendingLoads : unlockResolves(i)
    \/ \E k \in PianoKeys : keyDown(k)
    \/ \E k \in PianoKeys : keyUp(k)
    \/ \E k \in OctaveKeys : octaveKey(k)
    \/ \E cs \in ChordLists : spaceKey(cs)
    \/ stopSequenceApp
    \/ \E b \in BpmValues : setBpm(b)
    \/ \E s \in SoundTypes : setSound(s)
    \/ \E r \in ReleaseTimes : setReleaseTime(r)
    \/ \E g \in MasterVolumes : setMasterVolume(g)
    \/ \E l \in BOOLEAN : setLoop(l)
    \/ \E cs \in ChordLists : handlePlaySequence(cs, 0)
    \/ \E n \in Notes, d \in NoteDurations : playNote(n, d)
    \/ \E c \in PreviewChords : playChord(c)
    \/ \E n \in Notes : stopNote(n)
    \/ stopSequence
    \/ panic
    \/ \E cs \in ChordLists, s \in StartIndices, l \in BOOLEAN : playSequence(cs, s, l)
    \/ \E t \in seqTimers : seqTimerFires(t)
    \/ \E v \in BagToSet(voices) : oscStopFires(v)
    \/ \E v \in BagToSet(voices) : sfStopFires(v)
    \/ \E i \in Instruments : loadSoundfont(i)
    \/ \E i \in DOMAIN pendingLoads : loadResolves(i)
    \/ \E i \in DOMAIN pendingLoads : loadRejects(i)

Spec == Init /\ [][Next]_vars

\* ------------------------------------------- specifications by subsystem
\* The sequencer alone, on the oscillator backend.
NextSeq ==
    \/ \E b \in BpmValues : setBpm(b)
    \/ stopSequence
    \/ panic
    \/ \E cs \in ChordLists, s \in StartIndices, l \in BOOLEAN : playSequence(cs, s, l)
    \/ \E t \in seqTimers : seqTimerFires(t)
    \/ \E v \in BagToSet(voices) : oscStopFires(v)

SpecSeq == Init /\ [][NextSeq]_vars

\* A timer that is armed and not cleared fires.
LiveSpecSeq == SpecSeq /\ WF_vars(\E t \in seqTimers : seqTimerFires(t))

\* Notes and chords on both backends, with one soundfont.
NextVoice ==
    \/ \E n \in Notes, d \in NoteDurations : playNote(n, d)
    \/ \E c \in PreviewChords : playChord(c)
    \/ \E n \in Notes : stopNote(n)
    \/ panic
    \/ \E v \in BagToSet(voices) : oscStopFires(v)
    \/ \E v \in BagToSet(voices) : sfStopFires(v)
    \/ loadSoundfont("acoustic_grand_piano")
    \/ \E i \in DOMAIN pendingLoads : loadResolves(i)

SpecVoice == Init /\ [][NextVoice]_vars

\* Soundfont loads that resolve or reject, with held notes and a chord.
NextLoad ==
    \/ \E n \in Notes : playNote(n, 0)
    \/ playChord(ChordB)
    \/ panic
    \/ \E v \in BagToSet(voices) : oscStopFires(v)
    \/ \E v \in BagToSet(voices) : sfStopFires(v)
    \/ \E i \in Instruments : loadSoundfont(i)
    \/ \E i \in DOMAIN pendingLoads : loadResolves(i)
    \/ \E i \in DOMAIN pendingLoads : loadRejects(i)

SpecLoad == Init /\ [][NextLoad]_vars

\* The sequencer and held notes across a switch from oscillator to soundfont.
NextStop ==
    \/ \E n \in Notes : playNote(n, 0)
    \/ stopSequence
    \/ panic
    \/ \E cs \in ChordLists, l \in BOOLEAN : playSequence(cs, 0, l)
    \/ \E t \in seqTimers : seqTimerFires(t)
    \/ \E v \in BagToSet(voices) : oscStopFires(v)
    \/ \E v \in BagToSet(voices) : sfStopFires(v)
    \/ loadSoundfont("acoustic_grand_piano")
    \/ \E i \in DOMAIN pendingLoads : loadResolves(i)

SpecStop == Init /\ [][NextStop]_vars

\* The sequencer with onStep callbacks that call back into the engine, on the
\* oscillator backend.
NextCallback ==
    \/ stopSequence
    \/ \E cs \in ChordLists, l \in BOOLEAN : playSequence(cs, 0, l)
    \/ \E t \in seqTimers : seqTimerFires(t)
    \/ \E cs \in ChordLists, l \in BOOLEAN, cb \in Callbacks :
           playSequenceCalling(cs, 0, l, cb)
    \/ \E t \in seqTimers, cb \in Callbacks : seqTimerFiresCalling(t, cb)
    \/ \E v \in BagToSet(voices) : oscStopFires(v)

SpecCallback == Init /\ [][NextCallback]_vars

\* Soundfont loads of several names in flight that all resolve, with held
\* notes.
NextRace ==
    \/ \E n \in Notes : playNote(n, 0)
    \/ \E n \in Notes : stopNote(n)
    \/ \E i \in Instruments : loadSoundfont(i)
    \/ \E i \in DOMAIN pendingLoads : loadResolves(i)

SpecRace == Init /\ [][NextRace]_vars

\* The sequencer on lists with steps of zero duration, at several tempos.
NextDelay ==
    \/ \E b \in BpmValues : setBpm(b)
    \/ stopSequence
    \/ \E cs \in ZeroLists \cup {<<ChordA>>}, l \in BOOLEAN : playSequence(cs, 0, l)
    \/ \E t \in seqTimers : seqTimerFires(t)
    \/ \E v \in BagToSet(voices) : oscStopFires(v)

SpecDelay == Init /\ [][NextDelay]_vars

\* The computer keyboard: piano keys and octave keys, once audio is unlocked.
NextInput ==
    \/ unlockAudio
    \/ \E i \in DOMAIN pendingLoads : unlockResolves(i)
    \/ \E k \in PianoKeys : keyDown(k)
    \/ \E k \in PianoKeys : keyUp(k)
    \/ \E k \in OctaveKeys : octaveKey(k)
    \/ \E v \in BagToSet(voices) : sfStopFires(v)

SpecInput == Init /\ [][NextInput]_vars

\* The transport of KordApp: the Space key, the loop setting, and the timers
\* of the sequence.
NextTransport ==
    \/ \E l \in BOOLEAN : setLoop(l)
    \/ \E b \in BpmValues : setBpm(b)
    \/ \E cs \in ChordLists : spaceKey(cs)
    \/ \E t \in seqTimers : seqTimerFires(t)
    \/ \E v \in BagToSet(voices) : oscStopFires(v)

SpecTransport == Init /\ [][NextTransport]_vars

\* One note retriggered and released, on both backends.
NextRetrigger ==
    \/ \E d \in NoteDurations : playNote(RetriggerNote, d)
    \/ stopNote(RetriggerNote)
    \/ \E v \in BagToSet(voices) : oscStopFires(v)
    \/ \E v \in BagToSet(voices) : sfStopFires(v)
    \/ loadSoundfont("acoustic_grand_piano")
    \/ \E i \in DOMAIN pendingLoads : loadResolves(i)

SpecRetrigger == Init /\ [][NextRetrigger]_vars

\* Held and timed notes against stopNote and the sequencer, on both backends.
NextNote ==
    \/ \E n \in Notes, d \in NoteDurations : playNote(n, d)
    \/ \E n \in Notes : stopNote(n)
    \/ stopSequence
    \/ \E l \in BOOLEAN : playSequence(<<ChordA>>, 0, l)
    \/ \E t \in seqTimers : seqTimerFires(t)
    \/ \E v \in BagToSet(voices) : oscStopFires(v)
    \/ \E v \in BagToSet(voices) : sfStopFires(v)
    \/ loadSoundfont("acoustic_grand_piano")
    \/ \E i \in DOMAIN pendingLoads : loadResolves(i)

SpecNote == Init /\ [][NextNote]_vars

\* Sequences with steps that have no notes, on both backends.
NextSilent ==
    \/ \E cs \in SilentLists, s \in {0, 1}, l \in BOOLEAN : playSequence(cs, s, l)
    \/ \E c \in {ChordEmpty, ChordNoNotes} : playChord(c)
    \/ stopSequence
    \/ \E t \in seqTimers : seqTimerFires(t)
    \/ \E v \in BagToSet(voices) : oscStopFires(v)
    \/ \E v \in BagToSet(voices) : sfStopFires(v)
    \/ loadSoundfont("acoustic_grand_piano")
    \/ \E i \in DOMAIN pendingLoads : loadResolves(i)

SpecSilent == Init /\ [][NextSilent]_vars

\* The loop setting changed while a sequence plays.
NextLoop ==
    \/ \E l \in BOOLEAN : setLoop(l)
    \/ \E cs \in ChordLists : handlePlaySequence(cs, 0)
    \/ stopSequence
    \/ \E t \in seqTimers : seqTimerFires(t)
    \/ \E v \in BagToSet(voices) : oscStopFires(v)

SpecLoop == Init /\ [][NextLoop]_vars

\* The configuration setters against notes, releases and a sequence.
NextConfig ==
    \/ \E b \in BpmValues : setBpm(b)
    \/ \E s \in SoundTypes : setSound(s)
    \/ \E r \in ReleaseTimes : setReleaseTime(r)
    \/ \E g \in MasterVolumes : setMasterVolume(g)
    \/ \E d \in NoteDurations : playNote("C4", d)
    \/ stopNote("C4")
    \/ playSequence(<<ChordA>>, 0, FALSE)
    \/ \E t \in seqTimers : seqTimerFires(t)
    \/ \E v \in BagToSet(voices) : oscStopFires(v)

SpecConfig == Init /\ [][NextConfig]_vars

\* ------------------------------------------------------------------- claims
\* voices of note n that have been triggered and not yet released
ActiveCount(n) ==
    SumOver({v \in BagToSet(voices) : v.note = n /\ v.status = "sounding"}, voices)

\* C1: for every note name at most one active (triggered, not yet released)
\* voice exists, on the oscillator and on the soundfont backend alike; two
\* playNote(n) calls in a row leave one active voice for n.
C1_AtMostOneActiveVoice == \A n \in Notes : ActiveCount(n) <= 1

C5_DroppedWhileLoading ==
    /\ (lastOp.op \in {"playNote", "playChord"} /\ pendingLoads # << >> /\ ~soundfontReady)
           => lastOp.triggered = 0
    /\ (lastOp.op = "playChord" /\ pendingLoads = << >> /\ useSoundfont)
           => lastOp.triggered > 0

\* C6: a load that fails rejects to its caller and leaves useSoundfont,
\* soundfontReady, sfInstrument and currentInstrument as they were before the
\* call (for a call no other loadSoundfont call overlapped).
C6_FailedLoadKeepsBackend ==
    [][\A i \in DOMAIN pendingLoads :
           (loadRejects(i) /\ pendingLoads[i].solo) =>
               (lastOp'.threw /\ BackendState' = pendingLoads[i].pre)]_vars

\* the step of index i of a sequence has just run: its chord was played before
\* onStep(chord, i) was invoked, no timer was armed yet at that moment, and now
\* exactly one timer is pending, for index i + 1 of the same sequence
StepDone(chords, loop, i) ==
    /\ lastOp.stepped /\ lastOp.index = i
    /\ lastOp.playedAtStep =
           IF useSoundfont /\ ~soundfontReady THEN 0 ELSE Len(chords[i + 1].notes)
    /\ lastOp.triggered = lastOp.playedAtStep
    /\ lastOp.timersAtStep = 0
    /\ \E t \in seqTimers :
           /\ seqTimers = {t}
           /\ t.index = i + 1 /\ t.chords = chords /\ t.loop = loop

\* C7: every step plays its chord, then invokes onStep(chord, index) once, then
\* arms one timer for the next step; the first index is startIndex and a timer
\* armed by step i runs step i + 1 while that is inside the list.
C7_StepOrder ==
    [][/\ \A t \in seqTimers :
              (t.index < Len(t.chords) /\ lastOp'.op = "timer" /\ seqTimerFires(t))
                  => StepDone(t.chords, t.loop, t.index)'
       /\ \A cs \in ChordLists, s \in StartIndices, l \in BOOLEAN :
              (s >= 0 /\ s < Len(cs) /\ lastOp'.op = "playSequence"
                 /\ playSequence(cs, s, l))
                  => StepDone(cs, l, s)']_vars

\* the second chord of a list has been stepped by a timer
C7_Witness ==
    /\ lastOp.op = "timer" /\ lastOp.stepped /\ lastOp.index = 1
    /\ \E t \in seqTimers : t.index = 2

\* the timer armed by the last chord of a list
AtEndOfList(t) == t.index = Len(t.chords)

\* C8: at the end of the list a looping sequence steps index 0 and goes on; a
\* non-looping one plays no chord, invokes no onStep, arms no timer, and its
\* last timer does fire, so that no sequence timer stays pending.
C8_EndOfList ==
    /\ [][\A t \in seqTimers :
              (AtEndOfList(t) /\ lastOp'.op = "timer" /\ seqTimerFires(t)) =>
                  IF t.loop THEN StepDone(t.chords, TRUE, 0)'
                  ELSE /\ ~lastOp'.stepped
                       /\ lastOp'.triggered = 0
                       /\ voices' = voices
                       /\ seqTimers' = {}]_vars
    /\ (\E t \in seqTimers : ~t.loop /\ AtEndOfList(t))
           ~> (seqTimers = {} \/ lastOp.op = "playSequence")

\* a non-looping sequence has ended by itself
C8_Witness ==
    /\ lastOp.op = "timer" /\ ~lastOp.stepped /\ ~lastOp.threw
    /\ seqTimers = {} /\ sequenceTimeouts # << >>

\* the delay of the step that armed timer t, at tempo b
StepDelay(t, b) == (t.chords[t.index].durationBeats * 60000) \div b

\* C9: setBpm changes no armed timer, and every step arms its timer with
\* durationBeats * 60000 / bpm for the bpm in force when the step runs.
C9_DelayFromBpmAtTrigger ==
    [][/\ (\E b \in BpmValues : setBpm(b)) => seqTimers' = seqTimers
       /\ lastOp'.stepped =>
              \A t \in seqTimers' :
                  t.id = sequenceTimeouts'[Len(sequenceTimeouts')]
                      => t.delay = StepDelay(t, bpm)]_vars

\* setBpm was called with a timer armed, whose delay is still the old tempo's
C9_Witness ==
    /\ lastOp.op = "setBpm"
    /\ \E t \in seqTimers : t.delay # StepDelay(t, bpm)

\* C10: playSequence with an empty chord list, for every startIndex and either
\* value of loop, invokes no onStep, plays nothing and arms no timer.
C10_EmptyListNoStep ==
    [][\A s \in StartIndices, l \in BOOLEAN :
           (lastOp'.op = "playSequence" /\ playSequence(<< >>, s, l)) =>
               /\ ~lastOp'.stepped
               /\ lastOp'.triggered = 0
               /\ seqTimers' = {}
               /\ sequenceTimeouts' = << >>]_vars

\* playSequence has returned from an empty list with loop set: the only call
\* that ends by the stack overflow of schedule
C10_Witness == lastOp.op = "playSequence" /\ lastOp.threw /\ ~lastOp.stepped

\* Math.max(0, Math.min(startIndex, length - 1))
Clamped(startIndex, length) ==
    IF startIndex < 0 THEN 0
    ELSE IF startIndex > length - 1 THEN length - 1
    ELSE startIndex

\* C11: playSequence clamps startIndex into range: on a list that is not empty
\* the first step played is the chord at max(0, min(startIndex, L - 1)), for
\* every startIndex and either value of loop.
C11_StartIndexClamped ==
    [][\A cs \in ChordLists, s \in StartIndices, l \in BOOLEAN :
           (cs # << >> /\ lastOp'.op = "playSequence" /\ playSequence(cs, s, l)) =>
               /\ lastOp'.stepped
               /\ lastOp'.index = Clamped(s, Len(cs))]_vars

\* note n is held in B: a table entry that sounds and has no stop scheduled
HeldNote(B, n) ==
    \E v \in BagToSet(B) :
        v.note = n /\ v.inTable /\ v.status = "sounding" /\ ~v.stopPending

\* note n has a table entry in B that sounds
SoundingEntry(B, n) ==
    \E v \in BagToSet(B) : v.note = n /\ v.inTable /\ v.status = "sounding"

\* C12: a note triggered without a duration is held: it keeps a sounding entry
\* in the voice table across every timer firing and every call other than
\* stopNote(n) (and the stop-everything calls stopSequence and panic): playing
\* other notes, the setters, and starting a sequence do not release it.
C12_HeldUntilStopNote ==
    [][\A n \in Notes :
           (/\ HeldNote(voices, n)
            /\ lastOp'.op \notin {"stopSequence", "panic"}
            /\ ~(lastOp'.op = "stopNote" /\ stopNote(n)))
               => SoundingEntry(voices', n)]_vars

\* the voices of note n in B
VoicesOf(B, n) ==
    LET S == {v \in BagToSet(B) : v.note = n} IN [v \in S |-> B[v]]

\* entries of note n in the two voice tables
Entries(B, n) ==
    SumOver({v \in BagToSet(B) : v.inTable /\ v.note = n}, B)

\* C13: stopNote(n) removes the voice of n from the voice table and nothing
\* else: n has no table entry left, the voices of every other note, the
\* sequence timers and the configuration are unchanged, and no voice is
\* created; a note without table entry makes the call change nothing and throw
\* nothing.
C13_StopNoteFrame ==
    [][\A n \in Notes :
           (lastOp'.op = "stopNote" /\ stopNote(n)) =>
               /\ Entries(voices', n) = 0
               /\ \A m \in Notes \ {n} : VoicesOf(voices', m) = VoicesOf(voices, m)
               /\ UNCHANGED <<bpm, sequenceVars, soundfontVars>>
               /\ BagCardinality(voices') <= BagCardinality(voices)
               /\ Entries(voices, n) = 0 => (voices' = voices /\ ~lastOp'.threw)]_vars

\* C14: stopSequence() called with no sequence active (no sequence timer
\* pending) throws nothing and leaves the manually held notes in the voice
\* table.
C14_IdleStopKeepsHeldNotes ==
    [][(lastOp'.op = "stopSequence" /\ seqTimers = {} /\ stopSequence) =>
           /\ ~lastOp'.threw
           /\ \A n \in Notes : HeldNote(voices, n) => HeldNote(voices', n)]_vars

\* C15: after stopSequence() returns no sequence timer is pending and no voice
\* that was sounding before the call still sounds; a second stopSequence()
\* right after it changes nothing.
C15_StopSequenceStopsEverything ==
    /\ [](lastOp.op = "stopSequence" =>
              /\ seqTimers = {}
              /\ \A v \in BagToSet(voices) : v.status # "sounding")
    /\ [][(lastOp.op = "stopSequence" /\ stopSequence) =>
              UNCHANGED <<voices, sequenceVars, bpm, soundfontVars>>]_vars

\* C16: playChord on a ready backend triggers one voice per note of the chord,
\* each with a release scheduled when the chord has a duration, and stops the
\* voice a note of the chord already has, so that afterwards every note of the
\* chord has exactly one sounding voice.
C16_ChordOneVoicePerNote ==
    [][\A c \in PreviewChords :
           (/\ lastOp'.op = "playChord"
            /\ Backend(useSoundfont, soundfontReady, sfInstrument) # "drop"
            /\ playChord(c)) =>
               /\ lastOp'.triggered = Len(c.notes)
               /\ \A n \in Range(c.notes) :
                      /\ \E v \in BagToSet(voices') :
                             /\ v.note = n /\ v.inTable /\ v.status = "sounding"
                             /\ v.stopPending = (c.durationBeats # 0)
                      /\ ActiveCount(n)' = 1]_vars

\* calls of Soundfont.instrument for a name that are known to have been made:
\* those still pending, and the one that put the name in the cache
LoaderCalls(name) ==
    Cardinality({i \in DOMAIN pendingLoads : pendingLoads[i].name = name})
        + (IF name \in sfInstruments THEN 1 ELSE 0)

\* C17: the sample loader is invoked at most once for each instrument name,
\* also for calls issued while a load of that name is pending; loadSoundfont of
\* a cached name makes it current and ready without a new load.
C17_LoadOncePerName ==
    /\ [](\A name \in Instruments : LoaderCalls(name) <= 1)
    /\ [][\A name \in Instruments :
              (name \in sfInstruments /\ loadSoundfont(name)) =>
                  /\ Len(pendingLoads') = Len(pendingLoads)
                  /\ sfInstrument' = name /\ currentInstrument' = name
                  /\ useSoundfont' /\ soundfontReady']_vars

\* -------------------------------------------------------------- note names
\* tokens that /^([A-G]#?)(\d)$/ does not match: a flat spelling (what
\* chordToNotes gives for Cmin7), a pitch class without octave, the empty string
InvalidNotes == {"Eb3", "C", ""}

\* the characters of the note tokens used here
Spelling ==
    ("C4" :> <<"C", "4">>) @@ ("E4" :> <<"E", "4">>) @@
    ("Eb3" :> <<"E", "b", "3">>) @@ ("C" :> <<"C">>) @@ ("" :> << >>)

\* the NOTES array of noteToFreq, each name as its characters
NOTES ==
    << <<"C">>, <<"C", "#">>, <<"D">>, <<"D", "#">>, <<"E">>, <<"F">>,
       <<"F", "#">>, <<"G">>, <<"G", "#">>, <<"A">>, <<"A", "#">>, <<"B">> >>

Digits == <<"0", "1", "2", "3", "4", "5", "6", "7", "8", "9">>

\* Array.prototype.indexOf: the first index of x, from 0, or -1
IndexOf(s, x) ==
    IF \E i \in DOMAIN s : s[i] = x
    THEN (CHOOSE i \in DOMAIN s : s[i] = x /\ \A j \in 1..(i - 1) : s[j] # x) - 1
    ELSE -1

NoMatch == [pitch |-> << >>, octave |-> -1]

\* note.match(/^([A-G]#?)(\d)$/): a letter A-G, an optional #, one digit
noteMatch(note) ==
    LET cs      == Spelling[note]
        letters == {"A", "B", "C", "D", "E", "F", "G"}
        digit(c) == IndexOf(Digits, c) >= 0
    IN  IF Len(cs) = 2 /\ cs[1] \in letters /\ digit(cs[2])
        THEN [pitch |-> <<cs[1]>>, octave |-> IndexOf(Digits, cs[2])]
        ELSE IF Len(cs) = 3 /\ cs[1] \in letters /\ cs[2] = "#" /\ digit(cs[3])
        THEN [pitch |-> <<cs[1], "#">>, octave |-> IndexOf(Digits, cs[3])]
        ELSE NoMatch

\* the frequency 440 Hz, written as the MIDI number it belongs to
A4 == 69

\* noteToFreq, its result 440 * 2^((midi - 69) / 12) written as midi: a token
\* the pattern does not match gives 440 Hz
noteToFreq(note) ==
    LET m == noteMatch(note)
    IN  IF m = NoMatch THEN A4
        ELSE IndexOf(NOTES, m.pitch) + (m.octave + 1) * 12

\* Notes given by name, valid or not, on the oscillator backend.
NextToken ==
    \/ \E n \in {"C4"} \cup InvalidNotes, d \in NoteDurations : playNote(n, d)
    \/ \E n \in InvalidNotes :
           playChord([notes |-> <<"C4", n>>, durationBeats |-> 1])
    \/ \E n \in {"C4"} \cup InvalidNotes : stopNote(n)
    \/ \E v \in BagToSet(voices) : oscStopFires(v)

SpecToken == Init /\ [][NextToken]_vars

\* C18: playNote and playChord given a token that does not parse to a pitch
\* do nothing for that token: no voice is created for it, the voice table has
\* no entry for it, and nothing is thrown.
C18_InvalidTokenIsNoOp ==
    \A n \in DOMAIN Spelling :
        noteMatch(n) = NoMatch =>
            /\ \A v \in BagToSet(voices) : v.note # n
            /\ lastOp.op \in {"playNote", "playChord"} => ~lastOp.threw

\* ------------------------------------------------------------------- tempo
\* arguments of setBpm, the ones below 1 included
TempoInputs == {-60, 0, 60, 120}

\* The tempo setter given any number, with notes played and stopped.
NextTempo ==
    \/ \E b \in TempoInputs : setBpm(b)
    \/ \E n \in Notes, d \in NoteDurations : playNote(n, d)
    \/ \E n \in Notes : stopNote(n)
    \/ \E v \in BagToSet(voices) : oscStopFires(v)

SpecTempo == Init /\ [][NextTempo]_vars

\* C19: the stored tempo is always at least 1, whatever number setBpm was
\* given (zero and negative numbers included).
C19_BpmAtLeastOne == bpm >= 1

\* ------------------------------------------------------------- AudioHelper
\* Note names are sequences of characters.  Note.midi is the function of the
\* tonal library voiceChord calls: a letter A-G, a run of # or of b, an
\* optional octave; the number is 12 * (octave + 1) + semitone + alteration
\* when that lies in 0..127, and null otherwise.

\* pitch classes in a chord to voice
MaxChordNotes == 4

\* the least and the greatest MIDI number
MidiBottom == 0
MidiTop == 127

\* null, as the result of Note.midi
Null == -1

\* -Infinity, the first lastMidi
MinusInfinity == -2

NoteLetters == <<"C", "D", "E", "F", "G", "A", "B">>
SEMI == <<0, 2, 4, 5, 7, 9, 11>>

\* the pitch classes given to voiceChord; H is no note name, Cb lies below the
\* C of its octave and B# above the B of its octave
PitchClasses ==
    { <<"C">>, <<"E">>, <<"G">>, <<"A">>, <<"C", "b">>, <<"B", "#">>, <<"H">> }
BaseOctaves == {3, 8, 9}

\* the sequences over S of length at most n
SeqsUpTo(S, n) == UNION {[1..k -> S] : k \in 0..n}

\* how many times c repeats in cs from position i on
RECURSIVE RunLength(_, _, _)
RunLength(cs, i, c) ==
    IF i <= Len(cs) /\ cs[i] = c THEN 1 + RunLength(cs, i + 1, c) ELSE 0

\* the decimal number written by the digits cs[i..j], or Null when one of
\* them is no digit
RECURSIVE DecimalValue(_, _, _)
DecimalValue(cs, i, j) ==
    IF j < i THEN 0
    ELSE LET d == IndexOf(Digits, cs[j])
             r == DecimalValue(cs, i, j - 1)
         IN  IF d < 0 \/ r = Null THEN Null ELSE 10 * r + d

\* `${n}`: the characters of an integer
RECURSIVE NumberToString(_)
NumberToString(n) ==
    IF n < 0 THEN <<"-">> \o NumberToString(-n)
    ELSE IF n < 10 THEN <<Digits[n + 1]>>
    ELSE NumberToString(n \div 10) \o <<Digits[(n % 10) + 1]>>

\* the parts of a note name: letter, accidentals, octave; valid is FALSE when
\* the name does not begin with a letter A-G or has characters left over,
\* hasOct when an octave number is written
ParseNote(cs) ==
    LET step == IF cs = << >> THEN -1 ELSE IndexOf(NoteLetters, cs[1])
        acc  == IF Len(cs) >= 2 /\ cs[2] \in {"#", "b"}
                THEN RunLength(cs, 2, cs[2]) ELSE 0
        alt  == IF acc > 0 /\ cs[2] = "b" THEN -acc ELSE acc
        o    == 2 + acc
        neg  == o <= Len(cs) /\ cs[o] = "-"
        d    == IF neg THEN o + 1 ELSE o
        num  == DecimalValue(cs, d, Len(cs))
    IN  [valid  |-> step >= 0 /\ num # Null,
         pc     |-> SubSeq(cs, 1, 1 + acc),
         chroma |-> IF step >= 0 THEN SEMI[step + 1] + alt ELSE 0,
         hasOct |-> d <= Len(cs),
         oct    |-> IF num = Null THEN 0 ELSE IF neg THEN -num ELSE num]

\* Note.midi(name)
NoteMidi(cs) ==
    LET n == ParseNote(cs)
        h == n.chroma + 12 * (n.oct + 1)
    IN  IF n.valid /\ n.hasOct /\ h >= MidiBottom /\ h <= MidiTop THEN h ELSE Null

\* `${note}${currentOctave}`
NoteName(note, octave) == note \o NumberToString(octave)

\* the while loop at line 19 with a strict comparison: a pitch equal to the
\* last one is accepted
raiseOctave_AcceptsEqual(note, octave, lastMidi) ==
    LET top == CHOOSE o \in octave..(octave + 12) :
                   /\ (NoteMidi(NoteName(note, o)) = Null
                          \/ NoteMidi(NoteName(note, o)) >= lastMidi)
                   /\ \A p \in octave..(o - 1) :
                          /\ NoteMidi(NoteName(note, p)) # Null
                          /\ NoteMidi(NoteName(note, p)) < lastMidi
    IN  top

\* the while loop at lines 19-22: the octave it leaves currentOctave at
RECURSIVE raiseOctave(_, _, _)
raiseOctave(note, octave, lastMidi) ==
    LET midi == NoteMidi(NoteName(note, octave))
    IN  IF midi # Null /\ midi <= lastMidi
        THEN raiseOctave(note, octave + 1, lastMidi)
        ELSE octave

\* the for loop of voiceChord from one note on
RECURSIVE voiceChordFrom(_, _, _, _)
voiceChordFrom(notes, currentOctave, lastMidi, result) ==
    IF notes = << >> THEN result
    ELSE LET note   == Head(notes)
             octave == raiseOctave(note, currentOctave, lastMidi)
             midi   == NoteMidi(NoteName(note, octave))
         IN  IF midi = Null
             THEN voiceChordFrom(Tail(notes), octave, lastMidi, result)
             ELSE voiceChordFrom(Tail(notes), octave, midi,
                                 Append(result, NoteName(note, octave)))

voiceChord(notes, baseOctave) ==
    voiceChordFrom(notes, baseOctave, MinusInfinity, << >>)

\* Chord.get is the chord resolver of the tonal library: the symbol is split
\* into a tonic (a note letter and its accidentals) and a type, the type is
\* looked up in the chord dictionary, and the tonic is transposed by each
\* interval of the type.  An unknown type or a missing tonic gives a chord
\* with no notes.

\* an interval name as letter steps and semitones
IntervalSize ==
    ("1P" :> [step |-> 0, semi |-> 0])  @@ ("3m" :> [step |-> 2, semi |-> 3]) @@
    ("3M" :> [step |-> 2, semi |-> 4])  @@ ("5d" :> [step |-> 4, semi |-> 6]) @@
    ("5P" :> [step |-> 4, semi |-> 7])  @@ ("5A" :> [step |-> 4, semi |-> 8]) @@
    ("7d" :> [step |-> 6, semi |-> 9])  @@ ("7m" :> [step |-> 6, semi |-> 10]) @@
    ("7M" :> [step |-> 6, semi |-> 11])

\* the chord dictionary: the intervals of a type, << >> for an unknown type
ChordTypeIntervals(type) ==
    CASE type = << >>                          -> <<"1P", "3M", "5P">>
      [] type = <<"m", "i", "n">>              -> <<"1P", "3m", "5P">>
      [] type = <<"d", "i", "m">>              -> <<"1P", "3m", "5d">>
      [] type = <<"a", "u", "g">>              -> <<"1P", "3M", "5A">>
      [] type = <<"7">>                        -> <<"1P", "3M", "5P", "7m">>
      [] type = <<"m", "a", "j", "7">>         -> <<"1P", "3M", "5P", "7M">>
      [] type = <<"m", "i", "n", "7">>         -> <<"1P", "3m", "5P", "7m">>
      [] type = <<"d", "i", "m", "7">>         -> <<"1P", "3m", "5d", "7d">>
      [] OTHER                                 -> << >>

\* Chord.tokenize: the tonic is the note letter and the accidentals the symbol
\* begins with, the type is the rest
ChordTokenize(chord) ==
    LET letter == chord # << >> /\ IndexOf(NoteLetters, chord[1]) >= 0
        acc    == IF letter /\ Len(chord) >= 2 /\ chord[2] \in {"#", "b"}
                  THEN RunLength(chord, 2, chord[2]) ELSE 0
    IN  IF letter
        THEN [tonic |-> SubSeq(chord, 1, 1 + acc),
              type  |-> SubSeq(chord, 2 + acc, Len(chord))]
        ELSE [tonic |-> << >>, type |-> chord]

\* n times the character c
RECURSIVE Repeat(_, _)
Repeat(c, n) == IF n <= 0 THEN << >> ELSE <<c>> \o Repeat(c, n - 1)

\* the pitch class an interval above a tonic: the letter moves by the steps,
\* the accidentals make up the semitones
Transpose(tonic, interval) ==
    LET t      == ParseNote(tonic)
        from   == IndexOf(NoteLetters, tonic[1])
        size   == IntervalSize[interval]
        to     == from + size.step
        letter == NoteLetters[(to % 7) + 1]
        alt    == (t.chroma + size.semi) - (SEMI[(to % 7) + 1] + 12 * (to \div 7))
    IN  <<letter>> \o (IF alt < 0 THEN Repeat("b", -alt) ELSE Repeat("#", alt))

\* Chord.get(chord).notes
ChordGet(chord) ==
    LET token     == ChordTokenize(chord)
        intervals == ChordTypeIntervals(token.type)
    IN  [notes |-> IF token.tonic = << >> THEN << >>
                   ELSE [i \in 1..Len(intervals) |->
                            Transpose(token.tonic, intervals[i])]]

\* chordToNotes with every note put at baseOctave
chordToNotes_AtBaseOctave(chord, baseOctave) ==
    LET parsed == ChordGet(chord)
    IN  [i \in 1..Len(parsed.notes) |-> NoteName(parsed.notes[i], baseOctave)]

chordToNotes(chord, baseOctave) ==
    LET parsed == ChordGet(chord)
    IN  IF parsed.notes = << >> THEN << >>
        ELSE voiceChord(parsed.notes, baseOctave)

\* the chord symbols given to chordToNotes: four tonics with the chord types
\* of the tests, and symbols that are no chord
ChordTonics == { <<"C">>, <<"B">>, <<"F", "#">>, <<"E", "b">> }
ChordTypeNames ==
    { << >>, <<"m", "i", "n">>, <<"d", "i", "m">>, <<"a", "u", "g">>, <<"7">>,
      <<"m", "a", "j", "7">>, <<"m", "i", "n", "7">>, <<"d", "i", "m", "7">> }
UnknownSymbols ==
    { <<"X", "Y", "Z">>, << >>, <<"m", "i", "n", "7">>, <<"C", "x">> }
ChordSymbols ==
    {t \o q : t \in ChordTonics, q \in ChordTypeNames} \cup UnknownSymbols
\* the base octaves of the tests
ChordOctaves == {2, 3, 4}

\* the filter of notesToMidi written as a truthiness test: 0 goes as well
notesToMidi_DropsZero(notes) ==
    SelectSeq([i \in 1..Len(notes) |-> NoteMidi(notes[i])],
              LAMBDA n : n # Null /\ n # 0)

\* notes.map(Note.midi).filter(n => n != null)
notesToMidi(notes) ==
    LET mapped == [i \in 1..Len(notes) |-> NoteMidi(notes[i])]
    IN  SelectSeq(mapped, LAMBDA n : n # Null)

\* the tokens given to notesToMidi: the notes of the test, the lowest MIDI
\* note C-1, a note above the MIDI range, a pitch class without octave and a
\* token that is no note
MidiTokens ==
    { <<"C", "3">>, <<"E", "b", "3">>, <<"G", "3">>, <<"B", "b", "3">>,
      <<"C", "-", "1">>, <<"A", "9">>, <<"C">>, <<"X", "Y", "Z">> }

\* ENHARMONIC_MAP[pc] ?? pc
EnharmonicMap(pc) ==
    CASE pc = <<"D", "b">> -> <<"C", "#">>
      [] pc = <<"E", "b">> -> <<"D", "#">>
      [] pc = <<"G", "b">> -> <<"F", "#">>
      [] pc = <<"A", "b">> -> <<"G", "#">>
      [] pc = <<"B", "b">> -> <<"A", "#">>
      [] OTHER -> pc

\* the text JavaScript appends for an undefined value
Undefined == <<"u", "n", "d", "e", "f", "i", "n", "e", "d">>

\* forceSharps: Note.get(note) has an empty pc for a token that is no note;
\* n.oct is undefined for a note written without octave
forceSharps(note) ==
    LET n == ParseNote(note)
    IN  IF ~n.valid THEN note
        ELSE EnharmonicMap(n.pc)
                 \o (IF n.hasOct THEN NumberToString(n.oct) ELSE Undefined)

\* notes.map(this.forceSharps)
normalizeSharps(notes) == [i \in 1..Len(notes) |-> forceSharps(notes[i])]

\* the tokens given to normalizeSharps: the five flat spellings of the table
\* with an octave, notes the table does not name, a token that is no note,
\* and pitch classes written without octave
SharpTokens ==
    { <<"D", "b", "3">>, <<"E", "b", "3">>, <<"G", "b", "3">>, <<"A", "b", "3">>,
      <<"B", "b", "3">>, <<"D", "b", "-", "1">>, <<"C", "#", "4">>, <<"C", "3">>,
      <<"C", "b", "3">>, <<"B", "b", "b", "3">>, <<"X", "Y", "Z">>,
      <<"D", "b">>, <<"C">> }

engineVars ==
    <<bpm, voices, sequenceVars, soundfontVars, lastOp, configVars, uiVars>>

\* the engine as constructed, and the arguments of one call of an AudioHelper
\* function drawn from its inputs
InitHelper ==
    /\ bpm = 120
    /\ voices = EmptyBag
    /\ sequenceTimeouts = << >>
    /\ seqTimers = {}
    /\ sfInstruments = {}
    /\ sfInstrument = NoInstrument
    /\ currentInstrument = "acoustic_grand_piano"
    /\ useSoundfont = FALSE
    /\ soundfontReady = FALSE
    /\ pendingLoads = << >>
    /\ requested = "acoustic_grand_piano"
    /\ appBaseOctave = 4
    /\ keysDown = {}
    /\ pressedNotes = {}
    /\ soundReady = FALSE
    /\ isPlaying = FALSE
    /\ lastOp = Did("new", 0)
    /\ sound = "sine"
    /\ noteReleaseSec = 250
    /\ masterGain = 18
    /\ appLoop = FALSE
    /\ \/ \E notes \in SeqsUpTo(PitchClasses, MaxChordNotes), o \in BaseOctaves :
              helper = [fn |-> "voiceChord", returned |-> FALSE, notes |-> notes,
                        baseOctave |-> o, result |-> << >>]
       \/ \E chord \in ChordSymbols, o \in ChordOctaves :
              helper = [fn |-> "chordToNotes", returned |-> FALSE, chord |-> chord,
                        baseOctave |-> o, result |-> << >>]
       \/ \E notes \in SeqsUpTo(MidiTokens, MaxChordNotes) :
              helper = [fn |-> "notesToMidi", returned |-> FALSE, notes |-> notes,
                        result |-> << >>]
       \/ \E notes \in SeqsUpTo(SharpTokens, 2) :
              helper = [fn |-> "normalizeSharps", returned |-> FALSE,
                        notes |-> notes, result |-> << >>]

\* the call AudioHelper.voiceChord(notes, baseOctave) returns
VoiceChordCall ==
    /\ helper.fn = "voiceChord"
    /\ ~helper.returned
    /\ helper' = [helper EXCEPT
                      !.returned = TRUE,
                      !.result = voiceChord(helper.notes, helper.baseOctave)]
    /\ UNCHANGED engineVars

\* the call AudioHelper.chordToNotes(chord, baseOctave) returns
ChordToNotesCall ==
    /\ helper.fn = "chordToNotes"
    /\ ~helper.returned
    /\ helper' = [helper EXCEPT
                      !.returned = TRUE,
                      !.result = chordToNotes(helper.chord, helper.baseOctave)]
    /\ UNCHANGED engineVars

\* the call AudioHelper.notesToMidi(notes) returns
NotesToMidiCall ==
    /\ helper.fn = "notesToMidi"
    /\ ~helper.returned
    /\ helper' = [helper EXCEPT !.returned = TRUE,
                                !.result = notesToMidi(helper.notes)]
    /\ UNCHANGED engineVars

\* the call AudioHelper.normalizeSharps(notes) returns
NormalizeSharpsCall ==
    /\ helper.fn = "normalizeSharps"
    /\ ~helper.returned
    /\ helper' = [helper EXCEPT !.returned = TRUE,
                                !.result = normalizeSharps(helper.notes)]
    /\ UNCHANGED engineVars

\* The helper functions applied to every input.
NextHelper ==
    \/ VoiceChordCall
    \/ ChordToNotesCall
    \/ NotesToMidiCall
    \/ NormalizeSharpsCall

SpecHelper == InitHelper /\ [][NextHelper]_vars

\* a pitch class: a letter A-G and its accidentals, no octave
ValidPitchClass(pc) == ParseNote(pc).valid /\ ~ParseNote(pc).hasOct

\* the pitch classes of a list of notes, in order
PitchClassesOf(out) == [i \in 1..Len(out) |-> ParseNote(out[i]).pc]

\* a is b with some elements left out, the others in b's order
RECURSIVE IsSubsequence(_, _)
IsSubsequence(a, b) ==
    IF a = << >> THEN TRUE
    ELSE IF b = << >> THEN FALSE
    ELSE IF Head(a) = Head(b) THEN IsSubsequence(Tail(a), Tail(b))
    ELSE IsSubsequence(a, Tail(b))

\* every note has a pitch number and each is above the one before
StrictlyAscending(out) ==
    /\ \A i \in 1..Len(out) : NoteMidi(out[i]) # Null
    /\ \A i \in 1..(Len(out) - 1) : NoteMidi(out[i]) < NoteMidi(out[i + 1])

\* the voicing ends at least an octave below the top of the MIDI range
BelowTop(out, baseOctave) ==
    /\ baseOctave <= 8
    /\ out = << >> \/ NoteMidi(out[Len(out)]) <= MidiTop - 12

\* what the claim says of every call but the count, and its two examples
VoicingShape(in, baseOctave, out) ==
    /\ StrictlyAscending(out)
    /\ \A i \in 1..Len(out) : ParseNote(out[i]).oct >= baseOctave
    /\ IsSubsequence(PitchClassesOf(out), SelectSeq(in, ValidPitchClass))
    /\ (in = << <<"C">>, <<"E">>, <<"G">>, <<"C">> >> /\ baseOctave = 3)
           => out = << <<"C", "3">>, <<"E", "3">>, <<"G", "3">>, <<"C", "4">> >>
    /\ (in = << <<"C">>, <<"C">>, <<"E">> >> /\ baseOctave = 3)
           => out = << <<"C", "3">>, <<"C", "4">>, <<"E", "4">> >>

C21_ChordToNotes ==
    (helper.fn = "chordToNotes" /\ helper.returned) =>
        LET notes == ChordGet(helper.chord).notes
            out   == helper.result
        IN  /\ notes = << >> => out = << >>
            /\ notes # << >> =>
                   /\ PitchClassesOf(out) = notes
                   /\ ParseNote(out[1]).oct = helper.baseOctave
                   /\ StrictlyAscending(out)
            /\ (helper.chord = <<"C", "m", "i", "n", "7">> /\ helper.baseOctave = 3)
                   => /\ out = << <<"C", "3">>, <<"E", "b", "3">>,
                                  <<"G", "3">>, <<"B", "b", "3">> >>
                      /\ [i \in 1..Len(out) |-> NoteMidi(out[i])]
                             = <<48, 51, 55, 58>>

\* a chord whose voicing had to raise the octave above the root's
C21_Witness ==
    /\ helper.fn = "chordToNotes" /\ helper.returned
    /\ helper.chord = <<"B", "m", "a", "j", "7">>
    /\ helper.baseOctave = 4
    /\ helper.result = << <<"B", "4">>, <<"D", "#", "5">>,
                          <<"F", "#", "5">>, <<"A", "#", "5">> >>

\* C22: notesToMidi returns the pitch numbers of the parseable inputs in
\* input order: as many entries as there are inputs with a pitch number, none
\* of them null; notesToMidi([C3, Eb3, G3, Bb3]) = [48, 51, 55, 58].
C22_NotesToMidi ==
    (helper.fn = "notesToMidi" /\ helper.returned) =>
        LET in  == helper.notes
            out == helper.result
        IN  /\ Len(out) = Cardinality({i \in 1..Len(in) : NoteMidi(in[i]) # Null})
            /\ \A k \in 1..Len(out) : out[k] # Null
            /\ IsSubsequence(out, [i \in 1..Len(in) |-> NoteMidi(in[i])])
            /\ in = << <<"C", "3">>, <<"E", "b", "3">>, <<"G", "3">>, <<"B", "b", "3">> >>
                   => out = <<48, 51, 55, 58>>

\* pitch number 0 kept, a token that is no note and a note above the MIDI
\* range dropped
C22_Witness ==
    /\ helper.fn = "notesToMidi" /\ helper.returned
    /\ helper.notes = << <<"G", "3">>, <<"X", "Y", "Z">>, <<"A", "9">>, <<"C", "-", "1">> >>
    /\ helper.result = <<55, 0>>

\* one of the five flat spellings among the 12 pitch classes
FlatSpelled(note) ==
    /\ ParseNote(note).valid
    /\ ParseNote(note).pc \in
           { <<"D", "b">>, <<"E", "b">>, <<"G", "b">>, <<"A", "b">>, <<"B", "b">> }

\* b is a with its pitch class spelled with one sharp: the same octave (or
\* none on both sides) and the same pitch number
SharpSpellingOf(a, b) ==
    LET x == ParseNote(a)
        y == ParseNote(b)
    IN  /\ y.valid
        /\ Len(y.pc) = 2 /\ y.pc[2] = "#"
        /\ y.chroma = x.chroma
        /\ y.hasOct = x.hasOct /\ y.oct = x.oct
        /\ NoteMidi(b) = NoteMidi(a)

\* C23: normalizeSharps returns a list of the same length and order in which
\* every flat-spelled note of the 12 pitch classes is replaced by its sharp
\* spelling with the same octave and pitch number and every other note is
\* unchanged; applying it twice gives what applying it once gives.
C23_NormalizeSharps ==
    (helper.fn = "normalizeSharps" /\ helper.returned) =>
        LET in  == helper.notes
            out == helper.result
        IN  /\ Len(out) = Len(in)
            /\ \A i \in 1..Len(in) :
                   IF FlatSpelled(in[i]) THEN SharpSpellingOf(in[i], out[i])
                   ELSE out[i] = in[i]
            /\ normalizeSharps(out) = out

\* ------------------------------------------------------- release and retrigger
\* a voice of note n whose release has begun and whose delayed stop is pending
Releasing(B, n) ==
    {v \in BagToSet(B) : v.note = n /\ v.status = "releasing" /\ v.stopPending}

\* C24: the table entry of a note is deleted at the start of its release:
\* right after stopNote(n) the tables hold no voice for n; a playNote(n) during
\* the fade creates a new voice; and the delayed stop of the old voice, when it
\* fires, leaves every sounding voice as it is and in the table.
C24_EntryDeletedAtReleaseStart ==
    [][/\ \A n \in Notes :
              (lastOp'.op = "stopNote" /\ stopNote(n)) => Entries(voices', n) = 0
       /\ \A n \in Notes, d \in NoteDurations :
              (/\ lastOp'.op = "playNote" /\ playNote(n, d)
               /\ Releasing(voices, n) # {}
               /\ Backend(useSoundfont, soundfontReady, sfInstrument) # "drop")
                  => /\ lastOp'.triggered = 1
                     /\ \E w \in BagToSet(voices') :
                            /\ w.note = n /\ w.status = "sounding"
                            /\ CopiesIn(w, voices') = CopiesIn(w, voices) + 1
       /\ \A v \in BagToSet(voices) :
              (/\ lastOp'.op \in {"oscStop", "sfStop"}
               /\ oscStopFires(v) \/ sfStopFires(v)
               /\ v.status = "releasing")
                  => \A w \in BagToSet(voices) :
                         w.status = "sounding"
                             => CopiesIn(w, voices') = CopiesIn(w, voices)]_vars

\* C25: a voice triggered with a bounded duration leaves the voice table on
\* its own: once its scheduled stop has come and the voice has ended, it has no
\* table entry, whether or not stopNote, stopSequence or panic was called.
C25_TimedVoiceLeavesTable ==
    \A v \in BagToSet(voices) : v.status = "stopped" => ~v.inTable

\* C26: the loop setting is read when a step is scheduled, not when the
\* sequence is started: at the end of the list the sequence wraps to index 0
\* if the setting is on at that moment and stops if it is off, whatever it was
\* when the sequence was started.
C26_LoopSettingReadAtEndOfList ==
    [][\A t \in seqTimers :
           (AtEndOfList(t) /\ lastOp'.op = "timer" /\ seqTimerFires(t)) =>
               (lastOp'.stepped <=> appLoop)]_vars

\* ------------------------------------------------------------ configuration
SetterOps == {"setBpm", "setSound", "setReleaseTime", "setMasterVolume"}

\* the voices heard through the master gain node: the oscillators that have
\* not ended (osc -> gain -> masterGain); a soundfont node is connected to the
\* destination of the context
MasterRouted(B) == {v \in BagToSet(B) : v.backend = "osc" /\ v.status # "stopped"}

\* sounding oscillators of type ty in B
OscillatorsOfType(B, ty) ==
    SumOver({v \in BagToSet(B) :
                 v.backend = "osc" /\ v.status = "sounding" /\ v.type = ty}, B)

\* C27: a configuration setter leaves the voice table, every scheduled stop
\* and the armed sequence timers with their delays unchanged, and what a voice
\* already triggered sounds like; the new value is used by the events triggered
\* after the call: the next oscillator gets the new type, the next stopNote the
\* new release time.
C27_SettersTouchNoVoice ==
    [][/\ lastOp'.op \in SetterOps =>
              /\ voices' = voices
              /\ UNCHANGED sequenceVars
              /\ MasterRouted(voices) # {} => masterGain' = masterGain
       /\ (lastOp'.op = "playNote" /\ lastOp'.triggered = 1) =>
              \A ty \in SoundTypes :
                  OscillatorsOfType(voices', ty) =
                      OscillatorsOfType(voices, ty) + (IF ty = sound THEN 1 ELSE 0)
       /\ lastOp'.op = "stopNote" => lastOp'.release = noteReleaseSec]_vars

\* a chord that names no note: zero notes, or no notes field
Silent(chord) == "notes" \notin DOMAIN chord \/ chord.notes = << >>

\* the step of index i of a silent chord has run: onStep(chord, i) was invoked,
\* no voice was triggered, nothing was thrown, and the timer of index i + 1 of
\* the same sequence is armed
SilentStepDone(chords, i) ==
    /\ lastOp.stepped /\ lastOp.index = i
    /\ lastOp.triggered = 0
    /\ ~lastOp.threw
    /\ \E t \in seqTimers : t.index = i + 1 /\ t.chords = chords

\* C28: a sequence step whose chord has zero notes or no notes field triggers
\* no voice, still invokes onStep with its index, still arms the timer of the
\* next step, and throws nothing.
C28_SilentStepAdvances ==
    [][/\ \A t \in seqTimers :
              (/\ t.index < Len(t.chords) /\ Silent(t.chords[t.index + 1])
               /\ lastOp'.op = "timer" /\ seqTimerFires(t))
                  => SilentStepDone(t.chords, t.index)' /\ voices' = voices
       /\ \A cs \in SilentLists, s \in {0, 1}, l \in BOOLEAN :
              (/\ Silent(cs[s + 1])
               /\ lastOp'.op = "playSequence" /\ playSequence(cs, s, l))
                  => SilentStepDone(cs, s)']_vars

\* ------------------------------------------------- the specified voicing
\* the octave the specified algorithm gives a pitch class: the first one from
\* baseOctave on whose pitch number exceeds lastMidi, or Null when the pitch
\* class has no pitch number there
specifiedOctave(note, baseOctave, lastMidi) ==
    LET clears(o) == /\ NoteMidi(NoteName(note, o)) # Null
                     /\ NoteMidi(NoteName(note, o)) > lastMidi
        reached(o) == \A p \in baseOctave..(o - 1) :
                          NoteMidi(NoteName(note, p)) # Null
        found == {o \in baseOctave..(baseOctave + 12) : clears(o) /\ reached(o)}
    IN  IF found = {} THEN Null
        ELSE CHOOSE o \in found : \A p \in found : o <= p

\* the specified algorithm from one pitch class on: every pitch class starts
\* at baseOctave again
RECURSIVE specifiedVoicingFrom(_, _, _, _)
specifiedVoicingFrom(notes, baseOctave, lastMidi, result) ==
    IF notes = << >> THEN result
    ELSE LET note   == Head(notes)
             octave == specifiedOctave(note, baseOctave, lastMidi)
         IN  IF octave = Null
             THEN specifiedVoicingFrom(Tail(notes), baseOctave, lastMidi, result)
             ELSE specifiedVoicingFrom(Tail(notes), baseOctave,
                                       NoteMidi(NoteName(note, octave)),
                                       Append(result, NoteName(note, octave)))

specifiedVoicing(notes, baseOctave) ==
    specifiedVoicingFrom(notes, baseOctave, MinusInfinity, << >>)

\* C29: voiceChord, which carries the current octave over from one pitch class
\* to the next, returns for every input the list of the specified algorithm,
\* which starts every pitch class at baseOctave and raises its octave until its
\* pitch number exceeds the last assigned one; the call returns for every
\* input.
C29_VoicingAsSpecified ==
    (helper.fn = "voiceChord" /\ helper.returned) =>
        helper.result = specifiedVoicing(helper.notes, helper.baseOctave)

\* ----------------------------------------------------------------- leaks
\* the voices of B that still sound and that no table of the engine holds:
\* neither stopNote nor stopAllNotes reaches them
Leaked(B) == {v \in BagToSet(B) : v.status = "sounding" /\ ~v.inTable}

\* the voices of note n that still sound in B
Sounding(B, n) == {v \in BagToSet(B) : v.status = "sounding" /\ v.note = n}

\* C30: no voice leaks out of the engine's control: every voice that still
\* sounds, oscillator or sampled, timed or held, is in the voice table, so that
\* after stopNote(n) no voice of n still sounds and after panic none at all; a
\* timed note of playNote(n, d) is released early by stopNote(n), and a held
\* voice is not overwritten in the table while it sounds.
C30_NoVoiceLeak ==
    /\ [](Leaked(voices) = {})
    /\ [][/\ \A n \in Notes :
                 (lastOp'.op = "stopNote" /\ stopNote(n))
                     => Sounding(voices', n) = {}
          /\ \A m \in Notes :
                 lastOp'.op = "panic" => Sounding(voices', m) = {}]_vars

\* ----------------------------------------------------- re-entrant callbacks
\* the sequence timers pending for a chain that has been cancelled
CancelledTimers(timers) == {t \in timers : t.cancelled}

\* C31: cancellation requested from inside the step callback is honoured: when
\* onStep calls stopSequence(), panic() or playSequence(...), the executing
\* step arms no timer for the cancelled chain afterwards, the cancelled
\* sequence plays no further step, and at most one chain of steps is running.
C31_CallbackCancels ==
    [][/\ lastOp'.reentered # "none" =>
              /\ CancelledTimers(seqTimers') = {}
              /\ Cardinality(seqTimers') <= 1
       /\ (lastOp'.op = "timer" /\ lastOp'.stepped) => ~lastOp'.stale]_vars

\* -------------------------------------------------------- automatic release
\* the copies of voice w in B
Copies(B, w) == IF BagIn(w, B) THEN B[w] ELSE 0

\* the voices of B that sound with their automatic release still to come
TimedSounding(B) ==
    {w \in BagToSet(B) : w.status = "sounding" /\ w.stopPending}

\* the release of v has fired and ended one copy of v, and every other voice
\* that sounds is as it was, its own release still pending
OnlyReleased(v) ==
    /\ Copies(voices', v) = Copies(voices, v) - 1
    /\ \A w \in BagToSet(voices) \ {v} :
           w.status = "sounding" => Copies(voices', w) = Copies(voices, w)
    /\ TimedSounding(voices') \subseteq TimedSounding(voices)

C33_LastRequestWins ==
    /\ pendingLoads = << >> => currentInstrument = requested
    /\ soundfontReady => sfInstrument = currentInstrument

\* ------------------------------------------------------ the synchronous call
\* C34: playSequence always returns: for every chord list, empty or not, every
\* startIndex, in range, negative or past the end, and either value of loop,
\* the synchronous part of the call ends without an unbounded recursion of
\* schedule, having played at most one step and armed at most one timer.
C34_PlaySequenceReturns ==
    [][\A cs \in ChordLists, s \in StartIndices, l \in BOOLEAN :
           (lastOp'.op = "playSequence" /\ playSequence(cs, s, l)) =>
               /\ ~lastOp'.threw
               /\ Len(sequenceTimeouts') <= 1
               /\ Cardinality(seqTimers') <= 1]_vars

\* ------------------------------------------------------------ timer handles
\* C35: the engine tracks a single current sequence-timer handle: the handles
\* it keeps for cancellation are at most one at every moment, and a step
\* played from a timer does not make them more.
C35_SingleTimerHandle ==
    /\ [](Len(sequenceTimeouts) <= 1)
    /\ [][lastOp'.op = "timer" =>
              Len(sequenceTimeouts') <= Len(sequenceTimeouts)]_vars

\* ---------------------------------------------------------------- step delay
\* the least delay of a sequence timer, in milliseconds
MinDelayMs == 20

\* C36: the delay armed before the next sequence step is at least 20 ms, for
\* every chord duration, zero included, and every tempo, so that a looping
\* sequence has no back-to-back steps of zero delay.
C36_DelayAtLeastMinimum ==
    [][lastOp'.stepped =>
           \A t \in seqTimers' \ seqTimers : t.delay >= MinDelayMs]_vars

\* ---------------------------------------------------------- the two tables
\* C37: after stopNote(n) returns n has no entry in either voice table, the
\* oscillator table activeVoices or the sampled-note table sfActiveNotes, also
\* when n has voices in both because the backend was switched while the note
\* sounded.
C37_StopNoteClearsBothTables ==
    [][\A n \in Notes :
           (lastOp'.op = "stopNote" /\ stopNote(n)) =>
               /\ activeVoicesOf(voices', n) = {}
               /\ sfActiveNotesOf(voices', n) = {}]_vars

\* ---------------------------------------------------------------- stuck notes
\* C38: no held note gets stuck at the input layer: for every interleaving of
\* key-down, key-up and octave-change events, every note a key-down started
\* has been passed to stopNote once the keys are released, so the set of
\* pressed notes is empty, and no note is held, when no key is down.
C38_NoStuckNote ==
    keysDown = {} =>
        /\ pressedNotes = {}
        /\ \A v \in BagToSet(voices) : ~(v.inTable /\ v.status = "sounding")

\* ------------------------------------------------------------------ transport
\* the engine has a sequence running: a timer of a chain that was not
\* cancelled is pending
SequenceRunning == \E t \in seqTimers : ~t.cancelled

\* C39: the transport state of the UI mirrors the engine: isPlaying is true
\* exactly while the engine has a sequence running, so that after a sequence
\* without loop has played its last step and ended isPlaying is false and the
\* next Space key press starts playback.
C39_IsPlayingMirrorsEngine ==
    /\ [](isPlaying <=> SequenceRunning)
    /\ [][\A cs \in ChordLists \ {<< >>} :
              (~SequenceRunning /\ spaceKey(cs)) => lastOp'.op = "playSequence"]_vars

====
